---- MODULE Spec2Model ----
(***************************************************************************)
(* Model of TelegramFetcher.process_messages_to_chunks                     *)
(* (src/app/sources/telegram.py): the three reply-inference passes, root   *)
(* detection, breadth-first thread construction, turn condensing and chunk *)
(* formatting, run over one finite batch of messages.                      *)
(*                                                                         *)
(* Time is counted in seconds.  Texts and chunk contents are sequences of  *)
(* string tokens, so that joining and stripping are computed.              *)
(***************************************************************************)
EXTENDS Integers, Sequences, FiniteSets, TLC

VARIABLES
    messages,               \* the caller's list (argument)
    group_info,             \* argument
    time_threshold,         \* argument, seconds
    id_threshold,           \* argument
    min_participants,       \* argument
    messages_processed,     \* the working copy the passes write to
    same_user_chained_count,
    aba_inferred_count,
    proximity_inferred_count,
    replies_to_map,         \* target id -> list of replying ids
    root_message_ids,
    root_idx,               \* position of the `for root_id in root_message_ids` loop
    threads,                \* list of threads, each a list of message ids sorted ascending
    processed_in_threads,
    current_thread_ids,
    participants,
    queue,
    visited_in_this_thread,
    thread_idx,             \* position of the `for thread in threads` loop
    conversation_chunks,
    total_processed_thread_count,
    filtered_out_count,
    result,
    pc

vars == <<messages, group_info, time_threshold, id_threshold, min_participants,
          messages_processed, same_user_chained_count, aba_inferred_count,
          proximity_inferred_count, replies_to_map, root_message_ids, root_idx,
          threads, processed_in_threads, current_thread_ids, participants, queue,
          visited_in_this_thread, thread_idx, conversation_chunks,
          total_processed_thread_count, filtered_out_count, result, pc>>

---------------------------------------------------------------------------
(* Program constants *)

\* Python's None for a reply id (message ids are >= 1)
None == 0
\* inferred_reply_type: None
NoType == "none"
\* a date string datetime.fromisoformat rejects with ValueError
BadDate == -1

DEFAULT_TIME_THRESHOLD == 300
DEFAULT_ID_THRESHOLD == 5
DEFAULT_MIN_PARTICIPANTS == 2
MAX_THREAD_MESSAGES == 20
MAX_PARTICIPANTS == 5
\* timedelta(seconds=30) of the two interjection heuristics
INTERJECTION_GAP == 30

---------------------------------------------------------------------------
(* Bounds of the model *)

\* longest batch enumerated under the default configuration, ill-formed input included
\* (an unparsable date, a reply that points forward or to its own message)
MaxLen == 3
\* longest batch enumerated under every configuration, well-formed input only
MaxShort == 2
\* longest batch of the regular (chain / star / unlinked) shapes
MaxLong == 22
\* number of senders the regular shapes cycle through, at most
MaxLongSenders == 6

---------------------------------------------------------------------------
(* Generic helpers *)

Range(s) == {s[i] : i \in DOMAIN s}

RECURSIVE SumTo(_, _)
SumTo(f, k) == IF k = 0 THEN 0 ELSE f[k] + SumTo(f, k - 1)

\* list.sort() / sorted() on a list of distinct integers
RECURSIVE SortedSeq(_)
SortedSeq(S) ==
    IF S = {} THEN <<>>
    ELSE LET m == CHOOSE x \in S : \A y \in S : x <= y
         IN <<m>> \o SortedSeq(S \ {m})

Sorted(s) == SortedSeq(Range(s))

\* "sep".join(parts), parts being token sequences
RECURSIVE Join(_, _)
Join(sep, parts) ==
    IF parts = <<>> THEN <<>>
    ELSE IF Len(parts) = 1 THEN parts[1]
    ELSE parts[1] \o <<sep>> \o Join(sep, Tail(parts))

Whitespace == {" ", "\n", "\t"}

\* str.strip(): leading and trailing whitespace removed
RECURSIVE LStrip(_)
LStrip(s) == IF s # <<>> /\ Head(s) \in Whitespace THEN LStrip(Tail(s)) ELSE s

RECURSIVE RStrip(_)
RStrip(s) ==
    IF s # <<>> /\ s[Len(s)] \in Whitespace THEN RStrip(SubSeq(s, 1, Len(s) - 1)) ELSE s

Strip(s) == RStrip(LStrip(s))

---------------------------------------------------------------------------
(* Input batches *)

SenderNames == <<"A", "B", "C", "D", "E", "F", "G", "H">>
Words == <<"hi", "there", "hey", "ok">>
TextOf(k) == <<Words[((k - 1) % Len(Words)) + 1]>>

\* an id no message of the batch carries (a reply to a message that was not fetched)
AbsentId == 99

\* the dict fetch_messages builds for one message
MessageDict(id, date, sender, text, reply) ==
    [id |-> id, date |-> date, sender_id |-> sender, text |-> text,
     reply_to_msg_id |-> reply, original_reply_to |-> reply,
     inferred_reply_type |-> NoType]

GroupInfo == [group_name |-> "group", group_id |-> 4242]

\* ids ascend strictly: the k-th id is 1 plus the gaps before it (fetch_messages sorts
\* by id and drops duplicates)
IdAt(gap, k) == 1 + SumTo(gap, k - 1)

\* dates do not decrease along the batch; at most one of them does not parse
DateAt(delta, bad, k) == IF bad = k THEN BadDate ELSE SumTo(delta, k - 1)

\* rep[k]: 0 no reply, 1..n the k-th message's id, n+1 an id outside the batch
ReplyAt(gap, rep, n, k) ==
    IF rep[k] = 0 THEN None
    ELSE IF rep[k] = n + 1 THEN AbsentId
    ELSE IdAt(gap, rep[k])

\* sender patterns up to renaming: the first message is A's, and a new sender takes the
\* next unused name
RECURSIVE SenderPatterns(_)
SenderPatterns(n) ==
    IF n = 0 THEN {<<>>}
    ELSE UNION { { Append(p, s) : s \in 1..(Cardinality(Range(p)) + 1) }
                 : p \in SenderPatterns(n - 1) }

\* id gaps: at most one of them is not 1
GapSeqs(n, G) ==
    { g \in [1..(n - 1) -> G \cup {1}] : Cardinality({k \in 1..(n - 1) : g[k] # 1}) <= 1 }

\* dates: steps of 20 seconds but for two at most; or all steps of 20 seconds and one
\* date, at position bad, that does not parse
DateSeqs(n, D, malformed) ==
    { [delta |-> d, bad |-> 0] :
        d \in { e \in [1..(n - 1) -> D \cup {20}] :
                  Cardinality({k \in 1..(n - 1) : e[k] # 20}) <= 2 } }
    \cup { [delta |-> [k \in 1..(n - 1) |-> 20], bad |-> b] :
             b \in IF malformed THEN 1..n ELSE {} }

\* replies that do not point backwards (to the message itself or to a later one)
NotBackward(rep, n) == {k \in 1..n : rep[k] \in k..n}

\* explicit replies: two at most, of which one at most does not point backwards (none
\* when malformed is FALSE)
ReplySeqs(n, malformed) ==
    { r \in UNION { { [k \in 1..n |-> IF k \in E THEN f[k] ELSE 0] : f \in [E -> 1..(n + 1)] }
                    : E \in {X \in SUBSET (1..n) : Cardinality(X) <= 2} } :
        Cardinality(NotBackward(r, n)) <= (IF malformed THEN 1 ELSE 0) }

\* batches of n messages with id gaps from G and date steps from D
FreeBatches(n, G, D, malformed) ==
    { [k \in 1..n |->
          MessageDict(IdAt(gap, k), DateAt(date.delta, date.bad, k), SenderNames[snd[k]],
                      TextOf(k), ReplyAt(gap, rep, n, k))]
      : snd \in SenderPatterns(n), gap \in GapSeqs(n, G),
        date \in DateSeqs(n, D, malformed), rep \in ReplySeqs(n, malformed) }

\* regular long batches: consecutive ids, one fixed spacing in time, senders taken in
\* turn from the first `ns` names, every message after the first replying explicitly to
\* its predecessor ("chain"), to the first message ("star") or to nothing ("none")
LongReply(shape, k) ==
    IF k = 1 \/ shape = "none" THEN None
    ELSE IF shape = "chain" THEN k - 1
    ELSE 1

LongBatch(n, ns, step, shape) ==
    [k \in 1..n |->
        MessageDict(k, (k - 1) * step, SenderNames[((k - 1) % ns) + 1], TextOf(k),
                    LongReply(shape, k))]

LongBatches ==
    { LongBatch(n, ns, step, shape) :
        n \in 1..MaxLong, ns \in 1..MaxLongSenders,
        step \in {20, 40}, shape \in {"chain", "star", "none"} }

\* the five messages of the test sample (senders 100, 100, 200, 100, 300; the third
\* replies to the first), with the time steps between them as parameters
SampleBatch(step) ==
    LET sender == <<"A", "A", "B", "A", "C">>
        reply == <<None, None, 1, None, None>>
    IN [k \in 1..5 |-> MessageDict(k, SumTo(step, k - 1), sender[k], TextOf(k), reply[k])]

\* SAMPLE_MESSAGES: one minute between the messages, seven before the last one
SAMPLE_MESSAGES == SampleBatch(<<60, 60, 60, 420>>)

\* the sample and its variants with the reply 20 seconds after the second message, or
\* the last message one minute after the fourth
SampleBatches == { SampleBatch(<<60, d, 60, e>>) : d \in {20, 60}, e \in {60, 420} }

---------------------------------------------------------------------------
(* Initial state: the arguments of one call *)

InitLocals ==
    /\ messages_processed = <<>>
    /\ same_user_chained_count = 0
    /\ aba_inferred_count = 0
    /\ proximity_inferred_count = 0
    /\ replies_to_map = <<>>
    /\ root_message_ids = <<>>
    /\ root_idx = 1
    /\ threads = <<>>
    /\ processed_in_threads = {}
    /\ current_thread_ids = <<>>
    /\ participants = {}
    /\ queue = <<>>
    /\ visited_in_this_thread = {}
    /\ thread_idx = 1
    /\ conversation_chunks = <<>>
    /\ total_processed_thread_count = 0
    /\ filtered_out_count = 0
    /\ result = [returned |-> FALSE]
    /\ pc = "start"

Init ==
    /\ group_info = GroupInfo
    /\ \/ /\ \E n \in 0..MaxLen :
                messages \in FreeBatches(n, {DEFAULT_ID_THRESHOLD + 1}, {0, 40, 400}, TRUE)
          /\ time_threshold = DEFAULT_TIME_THRESHOLD
          /\ id_threshold = DEFAULT_ID_THRESHOLD
          /\ min_participants = DEFAULT_MIN_PARTICIPANTS
       \/ /\ \E n \in 0..MaxShort :
                messages \in FreeBatches(n, {2, DEFAULT_ID_THRESHOLD + 1},
                                         {0, 5, 10, 40, 400}, FALSE)
          /\ time_threshold \in {10, DEFAULT_TIME_THRESHOLD}
          /\ id_threshold \in {1, DEFAULT_ID_THRESHOLD}
          /\ min_participants \in {1, DEFAULT_MIN_PARTICIPANTS, 3}
       \/ /\ messages \in LongBatches
          /\ time_threshold = DEFAULT_TIME_THRESHOLD
          /\ id_threshold = DEFAULT_ID_THRESHOLD
          /\ min_participants \in {1, DEFAULT_MIN_PARTICIPANTS, 3}
       \/ /\ messages \in SampleBatches
          /\ time_threshold = DEFAULT_TIME_THRESHOLD
          /\ id_threshold = DEFAULT_ID_THRESHOLD
          /\ min_participants = DEFAULT_MIN_PARTICIPANTS
    /\ InitLocals

---------------------------------------------------------------------------
(* Steps 3-5: reply inference on the working copy *)

\* the parse of a date taken to succeed always
ParseNeverFails(a, b) == FALSE

\* datetime.fromisoformat(b) - datetime.fromisoformat(a) raised ValueError
ParseFails(a, b) == a = BadDate \/ b = BadDate

\* pass 1 without its two tests for an existing link
SameUserMatchesAnyLink(msgs, i, available_ids) ==
    /\ msgs[i].sender_id = msgs[i + 1].sender_id
    /\ msgs[i].id \in available_ids

\* pass 1 without its test on the senders
SameUserMatchesAnySender(msgs, i, available_ids) ==
    /\ msgs[i + 1].original_reply_to = None
    /\ msgs[i + 1].reply_to_msg_id = None
    /\ msgs[i].id \in available_ids

\* pass 1, iteration i (msg_a = msgs[i], msg_b = msgs[i+1])
SameUserMatches(msgs, i, available_ids) ==
    /\ msgs[i].sender_id = msgs[i + 1].sender_id
    /\ msgs[i + 1].original_reply_to = None
    /\ msgs[i + 1].reply_to_msg_id = None
    /\ msgs[i].id \in available_ids

\* a link written without its reason tag
LinkUntagged(msgs, k, target, reason) == [msgs EXCEPT ![k].reply_to_msg_id = target]

\* every link made to point at the first message of the batch
LinkToFirst(msgs, k, target, reason) ==
    [msgs EXCEPT ![k].reply_to_msg_id = msgs[1].id, ![k].inferred_reply_type = reason]

Link(msgs, k, target, reason) ==
    [msgs EXCEPT ![k].reply_to_msg_id = target, ![k].inferred_reply_type = reason]

RECURSIVE SameUserPass(_, _, _)
SameUserPass(st, i, available_ids) ==
    IF i > Len(st.msgs) - 1 THEN st
    ELSE IF SameUserMatches(st.msgs, i, available_ids)
         THEN SameUserPass([msgs |-> Link(st.msgs, i + 1, st.msgs[i].id, "same_user_consecutive"),
                            count |-> st.count + 1], i + 1, available_ids)
         ELSE SameUserPass(st, i + 1, available_ids)

\* pass 2 without its test that m3 is unlinked
AbaMatchesLinkedToo(msgs, i, available_ids) ==
    /\ msgs[i].sender_id = msgs[i + 2].sender_id
    /\ msgs[i].sender_id # msgs[i + 1].sender_id
    /\ msgs[i + 1].original_reply_to = msgs[i].id
    /\ msgs[i + 1].id \in available_ids

\* pass 2 reading the reply target m2 has now instead of the one it arrived with
AbaMatchesResolvedReply(msgs, i, available_ids) ==
    /\ msgs[i].sender_id = msgs[i + 2].sender_id
    /\ msgs[i].sender_id # msgs[i + 1].sender_id
    /\ msgs[i + 1].reply_to_msg_id = msgs[i].id
    /\ msgs[i + 2].reply_to_msg_id = None
    /\ msgs[i + 1].id \in available_ids

\* pass 2, iteration i (m1, m2, m3 = msgs[i], msgs[i+1], msgs[i+2])
AbaMatches(msgs, i, available_ids) ==
    /\ msgs[i].sender_id = msgs[i + 2].sender_id
    /\ msgs[i].sender_id # msgs[i + 1].sender_id
    /\ msgs[i + 1].original_reply_to = msgs[i].id
    /\ msgs[i + 2].reply_to_msg_id = None
    /\ msgs[i + 1].id \in available_ids

RECURSIVE AbaPass(_, _, _)
AbaPass(st, i, available_ids) ==
    IF i > Len(st.msgs) - 2 THEN st
    ELSE IF AbaMatches(st.msgs, i, available_ids)
         THEN AbaPass([msgs |-> Link(st.msgs, i + 2, st.msgs[i + 1].id, "aba"),
                       count |-> st.count + 1], i + 1, available_ids)
         ELSE AbaPass(st, i + 1, available_ids)

\* the time test with a difference of zero let through
IsCloseInTimeFromZero(prev, curr, tt) ==
    IF prev.date = BadDate \/ curr.date = BadDate THEN FALSE
    ELSE 0 <= curr.date - prev.date /\ curr.date - prev.date <= tt

\* pass 3, iteration i (msg_prev = msgs[i], msg_curr = msgs[i+1])
IsCloseInTime(prev, curr, tt) ==
    IF ParseFails(prev.date, curr.date) THEN FALSE
    ELSE 0 < curr.date - prev.date /\ curr.date - prev.date <= tt

IsCloseInId(prev, curr, it) == 0 < curr.id - prev.id /\ curr.id - prev.id <= it

\* pass 3 without its test that the current message is unlinked
ProximityMatchesAnyLink(msgs, i, available_ids, tt, it) ==
    /\ msgs[i].sender_id # msgs[i + 1].sender_id
    /\ IsCloseInTime(msgs[i], msgs[i + 1], tt)
    /\ IsCloseInId(msgs[i], msgs[i + 1], it)
    /\ msgs[i].id \in available_ids

ProximityMatches(msgs, i, available_ids, tt, it) ==
    /\ msgs[i].sender_id # msgs[i + 1].sender_id
    /\ msgs[i + 1].reply_to_msg_id = None
    /\ IsCloseInTime(msgs[i], msgs[i + 1], tt)
    /\ IsCloseInId(msgs[i], msgs[i + 1], it)
    /\ msgs[i].id \in available_ids

RECURSIVE ProximityPass(_, _, _, _, _)
ProximityPass(st, i, available_ids, tt, it) ==
    IF i > Len(st.msgs) - 1 THEN st
    ELSE IF ProximityMatches(st.msgs, i, available_ids, tt, it)
         THEN ProximityPass([msgs |-> Link(st.msgs, i + 1, st.msgs[i].id, "time_proximity"),
                             count |-> st.count + 1], i + 1, available_ids, tt, it)
         ELSE ProximityPass(st, i + 1, available_ids, tt, it)

\* the caller's list seen through a working list that shares its records
ArgumentAliased(original, working) == working

\* the caller's list after a write to the working list: copy.deepcopy gave the working
\* list records of its own, so the write does not reach it
ArgumentAfterWrite(original, working) == original

\* set(message_by_id.keys())
AvailableIds(msgs) == {msgs[k].id : k \in DOMAIN msgs}

\* message_by_id[id]: with a repeated id the dict keeps the last message carrying it
MessageById(msgs, id) ==
    msgs[CHOOSE k \in DOMAIN msgs :
            msgs[k].id = id /\ \A j \in DOMAIN msgs : msgs[j].id = id => j <= k]

---------------------------------------------------------------------------
(* Step 6: reply map, roots *)

\* replies_to_map: for every target id present in the batch, the ids replying to it,
\* in batch order
RepliesToMap(msgs) ==
    LET avail == AvailableIds(msgs)
        ids == [k \in DOMAIN msgs |-> msgs[k].id]
        Targets == {msgs[k].reply_to_msg_id : k \in DOMAIN msgs} \cap avail
    IN [t \in Targets \ {None} |->
           SelectSeq(ids, LAMBDA i : MessageById(msgs, i).reply_to_msg_id = t)]

\* the root condition without its test that the target is in the batch
HasNoTargetAtAll(msg, available_ids) == msg.reply_to_msg_id = None

\* `not target_id or target_id not in available_ids`
HasNoTargetInBatch(msg, available_ids) ==
    msg.reply_to_msg_id = None \/ msg.reply_to_msg_id \notin available_ids

\* the root heuristic without its test on the time gap
RootIsInterjectionAnyGap(msgs, map, k) ==
    /\ k + 1 <= Len(msgs)
    /\ msgs[k + 1].sender_id # msgs[k].sender_id
    /\ msgs[k + 1].reply_to_msg_id = None
    /\ msgs[k + 1].inferred_reply_type # "time_proximity"
    /\ msgs[k].id \notin DOMAIN map

\* a root loop that takes no candidate for an interjection
RootNeverInterjection(msgs, map, k) == FALSE

\* the root heuristic without its test that the candidate has no replies
RootIsInterjectionWithReplies(msgs, map, k) ==
    /\ k + 1 <= Len(msgs)
    /\ msgs[k + 1].sender_id # msgs[k].sender_id
    /\ msgs[k + 1].reply_to_msg_id = None
    /\ msgs[k + 1].inferred_reply_type # "time_proximity"
    /\ ~ParseFails(msgs[k].date, msgs[k + 1].date)
    /\ msgs[k + 1].date - msgs[k].date <= INTERJECTION_GAP

\* the `continue` of the root loop: the candidate at position k is taken for an
\* interjection
RootIsInterjection(msgs, map, k) ==
    /\ k + 1 <= Len(msgs)
    /\ msgs[k + 1].sender_id # msgs[k].sender_id
    /\ msgs[k + 1].reply_to_msg_id = None
    /\ msgs[k + 1].inferred_reply_type # "time_proximity"
    /\ msgs[k].id \notin DOMAIN map
    /\ ~ParseFails(msgs[k].date, msgs[k + 1].date)
    /\ msgs[k + 1].date - msgs[k].date <= INTERJECTION_GAP

\* msg_index: the first position carrying the id
IndexOfId(msgs, id) == CHOOSE k \in DOMAIN msgs :
                          msgs[k].id = id /\ \A j \in DOMAIN msgs : msgs[j].id = id => k <= j

\* every message taken for a root
EveryIdIsRoot(msgs, map, id) == TRUE

IsRootId(msgs, map, id) ==
    /\ HasNoTargetInBatch(MessageById(msgs, id), AvailableIds(msgs))
    /\ ~RootIsInterjection(msgs, map, IndexOfId(msgs, id))

\* root_message_ids after root_message_ids.sort()
RootMessageIds(msgs, map) ==
    SortedSeq({id \in AvailableIds(msgs) : IsRootId(msgs, map, id)})

---------------------------------------------------------------------------
(* Step 6: one dequeue of the breadth-first traversal *)

\* the cap test with the size compared by > instead of >=
CapReachedLate(thread_ids, parts) ==
    Len(thread_ids) > MAX_THREAD_MESSAGES \/ Cardinality(parts) > MAX_PARTICIPANTS

\* the cap test, made after the node's sender was added to participants
CapReached(thread_ids, parts) ==
    Len(thread_ids) >= MAX_THREAD_MESSAGES \/ Cardinality(parts) > MAX_PARTICIPANTS

\* the per-node heuristic applied only to nodes that carry no reply link
NodeIsInterjectionIfUnlinked(msgs, thread_ids, root_id, cur_id) ==
    /\ thread_ids # <<>>
    /\ cur_id # root_id
    /\ LET cur == MessageById(msgs, cur_id)
           prev == MessageById(msgs, thread_ids[Len(thread_ids)])
       IN /\ cur.reply_to_msg_id = None
          /\ cur.sender_id # prev.sender_id
          /\ cur.inferred_reply_type # "time_proximity"
          /\ ~(prev.date = BadDate \/ cur.date = BadDate)
          /\ cur.date - prev.date <= INTERJECTION_GAP

\* the `continue` of the per-node interjection heuristic
NodeIsInterjection(msgs, thread_ids, root_id, cur_id) ==
    /\ thread_ids # <<>>
    /\ cur_id # root_id
    /\ LET cur == MessageById(msgs, cur_id)
           prev == MessageById(msgs, thread_ids[Len(thread_ids)])
       IN /\ cur.reply_to_msg_id # prev.id
          /\ cur.sender_id # prev.sender_id
          /\ cur.inferred_reply_type # "time_proximity"
          /\ ~ParseFails(prev.date, cur.date)
          /\ cur.date - prev.date <= INTERJECTION_GAP

\* the replies to any message of the batch enqueued, whatever node was admitted
RepliesToAnyTarget(map, cur_id, visited) ==
    SelectSeq(SortedSeq(UNION {Range(map[t]) : t \in DOMAIN map}),
              LAMBDA r : r \notin visited /\ r # cur_id)

\* sorted(replies_to_map.get(current_msg_id, [])), the visited ones left out
RepliesToEnqueue(map, cur_id, visited) ==
    IF cur_id \in DOMAIN map
    THEN SelectSeq(Sorted(map[cur_id]), LAMBDA r : r \notin visited)
    ELSE <<>>

---------------------------------------------------------------------------
(* Step 7: condense, anonymize, format *)

\* labels numbered from one
AnonLabelFromOne(n) == "user" \o ToString(n + 1)

\* f"user{anon_id_counter}"
AnonLabel(n) == "user" \o ToString(n)

\* a block that ends after its first message
BlockEndAfterOne(thread, i, j) == j

\* end of the block of consecutive same-sender messages that starts at i
RECURSIVE BlockEnd(_, _, _)
BlockEnd(thread, i, j) ==
    IF j <= Len(thread) /\ thread[j].sender_id = thread[i].sender_id
    THEN BlockEnd(thread, i, j + 1)
    ELSE j

\* the `while i < len(thread)` loop; st = [parts, user_map, counter, participants]
RECURSIVE Condense(_, _, _)
Condense(thread, i, st) ==
    IF i > Len(thread) THEN st
    ELSE LET sender == thread[i].sender_id
             isNew == sender \notin DOMAIN st.user_map
             umap == IF isNew
                     THEN [s \in DOMAIN st.user_map \cup {sender} |->
                              IF s = sender THEN AnonLabel(st.counter) ELSE st.user_map[s]]
                     ELSE st.user_map
             j == BlockEnd(thread, i, i + 1)
             block_texts == [k \in 1..(j - i) |-> thread[i + k - 1].text]
         IN Condense(thread, j,
                [parts |-> Append(st.parts, [user |-> umap[sender],
                                             text |-> Join("\n", block_texts)]),
                 user_map |-> umap,
                 counter |-> IF isNew THEN st.counter + 1 ELSE st.counter,
                 participants |-> st.participants \cup {sender}])

CondenseThread(thread) ==
    Condense(thread, 1, [parts |-> <<>>, user_map |-> <<>>, counter |-> 0,
                         participants |-> {}])

\* "\n".join(f"{part['user']}: {part['text']}" ...).strip()
ConversationText(parts) ==
    Strip(Join("\n", [k \in DOMAIN parts |-> <<parts[k].user, ": ">> \o parts[k].text]))

\* a chunk id that leaves the root message id out
ChunkIdWithoutRoot(gid, root_id) == "tg_" \o ToString(gid) \o "_" \o ToString(gid)

\* f"tg_{group_info['group_id']}_{root_message['id']}"
ChunkId(gid, root_id) == "tg_" \o ToString(gid) \o "_" \o ToString(root_id)

\* the dict appended to conversation_chunks
ChunkDict(thread, cond, ginfo) ==
    [id |-> ChunkId(ginfo.group_id, thread[1].id),
     source |-> "telegram",
     group_id |-> ginfo.group_id,
     group_name |-> ginfo.group_name,
     root_message_id |-> thread[1].id,
     start_date |-> thread[1].date,
     end_date |-> thread[Len(thread)].date,
     participant_count |-> Cardinality(cond.participants),
     message_count_original |-> Len(thread),
     turn_count_condensed |-> Len(cond.parts),
     content |-> ConversationText(cond.parts)]

\* the participant filter, off by one
FilteredOutBelowMin(cond, minp) == Cardinality(cond.participants) < minp - 1

\* the participant filter
FilteredOut(cond, minp) == Cardinality(cond.participants) < minp

\* the early return for an empty list
EmptyResult ==
    [conversation_chunks |-> <<>>,
     processing_stats |-> [total_messages_fetched |-> 0, final_chunks_exported |-> 0]]

\* the dict returned at the end
FinalResult ==
    [group_info |-> group_info,
     processing_parameters |->
        [time_threshold_proximity_minutes |-> <<time_threshold, 60>>,
         id_threshold_proximity |-> id_threshold,
         min_participants_per_chunk |-> min_participants],
     processing_stats |->
        [total_messages_fetched |-> Len(messages),
         same_user_chained_count |-> same_user_chained_count,
         aba_inferred_count |-> aba_inferred_count,
         proximity_inferred_count |-> proximity_inferred_count,
         total_raw_threads_built |-> Len(threads),
         threads_filtered_out |-> filtered_out_count,
         final_chunks_exported |-> Len(conversation_chunks)],
     conversation_chunks |-> conversation_chunks]

---------------------------------------------------------------------------
(* Actions *)

inputs == <<messages, group_info, time_threshold, id_threshold, min_participants>>
parameters == <<group_info, time_threshold, id_threshold, min_participants>>
counters == <<same_user_chained_count, aba_inferred_count, proximity_inferred_count>>
bfs_vars == <<current_thread_ids, participants, queue, visited_in_this_thread>>
thread_vars == <<replies_to_map, root_message_ids, root_idx, threads, processed_in_threads>>
chunk_vars == <<thread_idx, conversation_chunks, total_processed_thread_count,
                filtered_out_count>>

\* `if not messages: return {...}`
ReturnEmpty ==
    /\ pc = "start"
    /\ messages = <<>>
    /\ result' = [returned |-> TRUE, value |-> EmptyResult]
    /\ pc' = "done"
    /\ UNCHANGED <<inputs, messages_processed, counters, thread_vars, bfs_vars, chunk_vars>>

\* the deep copy, then step 3 (same-user chaining)
SameUserChaining ==
    /\ pc = "start"
    /\ messages # <<>>
    /\ LET st == SameUserPass([msgs |-> messages, count |-> 0], 1, AvailableIds(messages))
       IN /\ messages_processed' = st.msgs
          /\ messages' = ArgumentAfterWrite(messages, st.msgs)
          /\ same_user_chained_count' = st.count
    /\ pc' = "aba"
    /\ UNCHANGED <<parameters, aba_inferred_count, proximity_inferred_count, thread_vars,
                   bfs_vars, chunk_vars, result>>

\* step 4 (A-B-A)
AbaInference ==
    /\ pc = "aba"
    /\ LET st == AbaPass([msgs |-> messages_processed, count |-> 0], 1,
                         AvailableIds(messages_processed))
       IN /\ messages_processed' = st.msgs
          /\ messages' = ArgumentAfterWrite(messages, st.msgs)
          /\ aba_inferred_count' = st.count
    /\ pc' = "proximity"
    /\ UNCHANGED <<parameters, same_user_chained_count, proximity_inferred_count, thread_vars,
                   bfs_vars, chunk_vars, result>>

\* step 5 (time/proximity)
ProximityInference ==
    /\ pc = "proximity"
    /\ LET st == ProximityPass([msgs |-> messages_processed, count |-> 0], 1,
                               AvailableIds(messages_processed), time_threshold,
                               id_threshold)
       IN /\ messages_processed' = st.msgs
          /\ messages' = ArgumentAfterWrite(messages, st.msgs)
          /\ proximity_inferred_count' = st.count
    /\ pc' = "roots"
    /\ UNCHANGED <<parameters, same_user_chained_count, aba_inferred_count, thread_vars,
                   bfs_vars, chunk_vars, result>>

\* step 6 up to the sorted root list
IdentifyRoots ==
    /\ pc = "roots"
    /\ replies_to_map' = RepliesToMap(messages_processed)
    /\ root_message_ids' = RootMessageIds(messages_processed, replies_to_map')
    /\ pc' = "threads"
    /\ UNCHANGED <<inputs, messages_processed, counters, root_idx, threads,
                   processed_in_threads, bfs_vars, chunk_vars, result>>

\* one turn of `for root_id in root_message_ids` up to the `while queue`
NextRoot ==
    /\ pc = "threads"
    /\ root_idx <= Len(root_message_ids)
    /\ IF root_message_ids[root_idx] \in processed_in_threads
       THEN /\ root_idx' = root_idx + 1
            /\ UNCHANGED <<bfs_vars, pc>>
       ELSE /\ current_thread_ids' = <<>>
            /\ participants' = {}
            /\ queue' = <<root_message_ids[root_idx]>>
            /\ visited_in_this_thread' = {}
            /\ pc' = "bfs"
            /\ UNCHANGED root_idx
    /\ UNCHANGED <<inputs, messages_processed, counters, replies_to_map, root_message_ids,
                   threads, processed_in_threads, chunk_vars, result>>

\* one turn of `while queue`
BfsStep ==
    /\ pc = "bfs"
    /\ queue # <<>>
    /\ LET cur_id == Head(queue)
           rest == Tail(queue)
           root_id == root_message_ids[root_idx]
       IN IF cur_id \notin AvailableIds(messages_processed)
             \/ cur_id \in visited_in_this_thread
          THEN /\ queue' = rest
               /\ UNCHANGED <<current_thread_ids, participants, visited_in_this_thread,
                              processed_in_threads, pc>>
          ELSE LET cur == MessageById(messages_processed, cur_id)
                   parts == participants \cup {cur.sender_id}
               IN /\ participants' = parts
                  /\ IF CapReached(current_thread_ids, parts)
                     THEN /\ queue' = rest
                          /\ pc' = "thread_end"
                          /\ UNCHANGED <<current_thread_ids, visited_in_this_thread,
                                         processed_in_threads>>
                     ELSE IF NodeIsInterjection(messages_processed, current_thread_ids,
                                                root_id, cur_id)
                     THEN /\ queue' = rest
                          /\ UNCHANGED <<current_thread_ids, visited_in_this_thread,
                                         processed_in_threads, pc>>
                     ELSE /\ visited_in_this_thread' = visited_in_this_thread \cup {cur_id}
                          /\ processed_in_threads' = processed_in_threads \cup {cur_id}
                          /\ current_thread_ids' = Append(current_thread_ids, cur_id)
                          /\ queue' = rest \o RepliesToEnqueue(replies_to_map, cur_id,
                                                               visited_in_this_thread')
                          /\ UNCHANGED pc
    /\ UNCHANGED <<inputs, messages_processed, counters, replies_to_map, root_message_ids,
                   root_idx, threads, chunk_vars, result>>

\* the end of a thread without the advance to the next root
EndThreadSameRoot ==
    /\ IF pc = "bfs" THEN queue = <<>> ELSE pc = "thread_end"
    /\ threads' = IF current_thread_ids # <<>>
                  THEN Append(threads, Sorted(current_thread_ids))
                  ELSE threads
    /\ pc' = "threads"
    /\ UNCHANGED <<inputs, messages_processed, counters, replies_to_map, root_message_ids,
                   root_idx, processed_in_threads, bfs_vars, chunk_vars, result>>

\* after the `while`: the thread, sorted by id, is appended when it is not empty
EndThread ==
    /\ IF pc = "bfs" THEN queue = <<>> ELSE pc = "thread_end"
    /\ threads' = IF current_thread_ids # <<>>
                  THEN Append(threads, Sorted(current_thread_ids))
                  ELSE threads
    /\ root_idx' = root_idx + 1
    /\ pc' = "threads"
    /\ UNCHANGED <<inputs, messages_processed, counters, replies_to_map, root_message_ids,
                   processed_in_threads, bfs_vars, chunk_vars, result>>

\* thread_messages of the thread at position t
ThreadMessages(t) ==
    [k \in DOMAIN threads[t] |-> MessageById(messages_processed, threads[t][k])]

\* one turn of `for thread in threads`, which follows the root loop
ProcessThread ==
    /\ pc = "threads"
    /\ root_idx > Len(root_message_ids)
    /\ thread_idx <= Len(threads)
    /\ total_processed_thread_count' = total_processed_thread_count + 1
    /\ LET thread == ThreadMessages(thread_idx)
           cond == CondenseThread(thread)
       IN IF thread = <<>>
          THEN UNCHANGED <<conversation_chunks, filtered_out_count>>
          ELSE IF FilteredOut(cond, min_participants)
          THEN /\ filtered_out_count' = filtered_out_count + 1
               /\ UNCHANGED conversation_chunks
          ELSE /\ conversation_chunks' =
                      Append(conversation_chunks, ChunkDict(thread, cond, group_info))
               /\ UNCHANGED filtered_out_count
    /\ thread_idx' = thread_idx + 1
    /\ UNCHANGED <<inputs, messages_processed, counters, thread_vars, bfs_vars, result, pc>>

\* the result dict is built and returned
ReturnResult ==
    /\ pc = "threads"
    /\ root_idx > Len(root_message_ids)
    /\ thread_idx > Len(threads)
    /\ result' = [returned |-> TRUE, value |-> FinalResult]
    /\ pc' = "done"
    /\ UNCHANGED <<inputs, messages_processed, counters, thread_vars, bfs_vars, chunk_vars>>

Next ==
    \/ ReturnEmpty
    \/ SameUserChaining
    \/ AbaInference
    \/ ProximityInference
    \/ IdentifyRoots
    \/ NextRoot
    \/ BfsStep
    \/ EndThread
    \/ ProcessThread
    \/ ReturnResult

Spec == Init /\ [][Next]_vars

---------------------------------------------------------------------------
(* Vocabulary of the properties *)

Returned == pc = "done"
InferenceDone == pc \notin {"start", "aba", "proximity"}
Chunks == result.value.conversation_chunks
Stats == result.value.processing_stats
DefaultThresholds ==
    time_threshold = DEFAULT_TIME_THRESHOLD /\ id_threshold = DEFAULT_ID_THRESHOLD

\* the distinct senders of the thread at position t
ThreadSenders(t) ==
    {MessageById(messages_processed, threads[t][k]).sender_id : k \in DOMAIN threads[t]}

AllStatKeys ==
    {"total_messages_fetched", "same_user_chained_count", "aba_inferred_count",
     "proximity_inferred_count", "total_raw_threads_built", "threads_filtered_out",
     "final_chunks_exported"}

---------------------------------------------------------------------------
(* C1 *)

\* C1: a message that arrived with an explicit reply id keeps it, in reply_to_msg_id and
\* in original_reply_to, and never gets an inferred_reply_type, in every state of the
\* run from the first pass on.
ExplicitLinksKept ==
    \A k \in DOMAIN messages_processed :
        messages[k].original_reply_to # None =>
            /\ messages_processed[k].reply_to_msg_id = messages[k].original_reply_to
            /\ messages_processed[k].original_reply_to = messages[k].original_reply_to
            /\ messages_processed[k].inferred_reply_type = NoType

\* the passes ran on a batch in which an explicitly linked message follows a message of
\* the same sender (pass 1's sender test holds for it) and another message was linked
ExplicitLinkSurvivesPasses ==
    /\ Returned
    /\ \E k \in 2..Len(messages) :
          /\ messages[k].original_reply_to # None
          /\ messages[k - 1].sender_id = messages[k].sender_id
    /\ \E j \in DOMAIN messages_processed :
          messages_processed[j].inferred_reply_type # NoType

---------------------------------------------------------------------------
(* C2 *)

\* C2: after inference every reply target present in the batch is strictly smaller than
\* the id of the message carrying it, and so is every edge of replies_to_map.
NoForwardReplyLinks ==
    InferenceDone =>
        /\ \A k \in DOMAIN messages_processed :
              messages_processed[k].reply_to_msg_id \in AvailableIds(messages_processed)
                  => messages_processed[k].reply_to_msg_id < messages_processed[k].id
        /\ \A t \in DOMAIN replies_to_map :
              \A r \in Range(replies_to_map[t]) : t < r

---------------------------------------------------------------------------
(* C3 *)

\* the batch (1, A, "hi"), (2, A, "there"), (3, B, reply to 1, "hey") with parsable,
\* non-decreasing timestamps
IsExampleBatch ==
    /\ Len(messages) = 3
    /\ [k \in 1..3 |-> messages[k].id] = <<1, 2, 3>>
    /\ [k \in 1..3 |-> messages[k].sender_id] = <<"A", "A", "B">>
    /\ [k \in 1..3 |-> messages[k].text] = << <<"hi">>, <<"there">>, <<"hey">> >>
    /\ [k \in 1..3 |-> messages[k].original_reply_to] = <<None, None, 1>>
    /\ \A k \in 1..3 : messages[k].date # BadDate
    /\ messages[1].date <= messages[2].date /\ messages[2].date <= messages[3].date

ExampleChunkEmitted ==
    /\ Len(Chunks) = 1
    /\ Chunks[1].content = <<"user0", ": ", "hi", "\n", "there", "\n", "user1", ": ", "hey">>
    /\ Chunks[1].turn_count_condensed = 2
    /\ Chunks[1].participant_count = 2
    /\ Chunks[1].message_count_original = 3

\* C3: the example batch, with min_participants = 2 and the default thresholds, yields
\* exactly one chunk of two turns, whatever its timestamps.
ExampleYieldsOneChunk ==
    (Returned /\ IsExampleBatch /\ DefaultThresholds
        /\ min_participants = DEFAULT_MIN_PARTICIPANTS) => ExampleChunkEmitted

---------------------------------------------------------------------------
(* C4 *)

\* five consecutive messages of one sender, no replies
IsFiveSameSender ==
    /\ Len(messages) = 5
    /\ \A k \in 1..5 : /\ messages[k].sender_id = messages[1].sender_id
                       /\ messages[k].original_reply_to = None

\* C4: when the run has returned, every chunk has participant_count >= min_participants,
\* the chunks are exactly the threads with at least min_participants distinct senders,
\* every other thread is counted once in threads_filtered_out, and five messages of one
\* sender with min_participants = 2 give no chunk.
ParticipantFilter ==
    (Returned /\ messages # <<>>) =>
        LET Kept == {t \in DOMAIN threads : Cardinality(ThreadSenders(t)) >= min_participants}
        IN /\ \A c \in DOMAIN Chunks : Chunks[c].participant_count >= min_participants
           /\ {Chunks[c].root_message_id : c \in DOMAIN Chunks} = {threads[t][1] : t \in Kept}
           /\ Len(Chunks) = Cardinality(Kept)
           /\ Stats.threads_filtered_out = Len(threads) - Cardinality(Kept)
           /\ (IsFiveSameSender /\ min_participants = DEFAULT_MIN_PARTICIPANTS)
                  => Chunks = <<>>

\* a run returned with a thread that was filtered out and a thread that was emitted
SomeThreadFilteredSomeEmitted ==
    /\ Returned
    /\ messages # <<>>
    /\ Stats.threads_filtered_out >= 1
    /\ Len(Chunks) >= 1

---------------------------------------------------------------------------
(* C5 *)

\* C5: the thread under construction, every built thread and every chunk hold at most
\* MAX_THREAD_MESSAGES messages, from at most MAX_PARTICIPANTS distinct senders.
ThreadCaps ==
    /\ Len(current_thread_ids) <= MAX_THREAD_MESSAGES
    /\ Cardinality({MessageById(messages_processed, id).sender_id :
                       id \in Range(current_thread_ids)}) <= MAX_PARTICIPANTS
    /\ \A t \in DOMAIN threads :
          /\ Len(threads[t]) <= MAX_THREAD_MESSAGES
          /\ Cardinality(ThreadSenders(t)) <= MAX_PARTICIPANTS
    /\ \A c \in DOMAIN conversation_chunks :
          /\ conversation_chunks[c].message_count_original <= MAX_THREAD_MESSAGES
          /\ conversation_chunks[c].participant_count <= MAX_PARTICIPANTS

\* a chunk of exactly MAX_THREAD_MESSAGES messages and MAX_PARTICIPANTS senders came out
\* of a batch whose reply tree is larger than the cap
CapCutAThread ==
    /\ Returned
    /\ Len(messages) > MAX_THREAD_MESSAGES
    /\ Cardinality(DOMAIN replies_to_map) >= MAX_THREAD_MESSAGES
    /\ \E c \in DOMAIN Chunks :
          /\ Chunks[c].message_count_original = MAX_THREAD_MESSAGES
          /\ Chunks[c].participant_count = MAX_PARTICIPANTS

---------------------------------------------------------------------------
(* C7 *)

\* the rules of the three passes, read off the batch as it arrived
Rule1Holds(k) ==
    /\ k >= 2
    /\ messages[k - 1].sender_id = messages[k].sender_id
    /\ messages[k].original_reply_to = None

Rule2Holds(k) ==
    /\ k >= 3
    /\ messages[k - 2].sender_id = messages[k].sender_id
    /\ messages[k - 2].sender_id # messages[k - 1].sender_id
    /\ messages[k - 1].original_reply_to = messages[k - 2].id
    /\ messages[k].original_reply_to = None

Rule3Holds(k) ==
    /\ k >= 2
    /\ messages[k - 1].sender_id # messages[k].sender_id
    /\ messages[k].original_reply_to = None
    /\ messages[k - 1].date # BadDate /\ messages[k].date # BadDate
    /\ messages[k].date - messages[k - 1].date \in 1..time_threshold
    /\ messages[k].id - messages[k - 1].id \in 1..id_threshold

FirstMatchingReason(k) ==
    IF Rule1Holds(k) THEN "same_user_consecutive"
    ELSE IF Rule2Holds(k) THEN "aba"
    ELSE IF Rule3Holds(k) THEN "time_proximity"
    ELSE NoType

\* once a message carries a reason, no step changes the message
InferredLinkFrozen ==
    \A k \in DOMAIN messages_processed :
        messages_processed[k].inferred_reply_type # NoType
            => messages_processed'[k] = messages_processed[k]

\* after the passes each message carries the reason of the first rule that matches it
ReasonIsFirstMatch ==
    InferenceDone =>
        \A k \in DOMAIN messages_processed :
            messages_processed[k].inferred_reply_type = FirstMatchingReason(k)

\* C7: a message is linked by inference at most once: no step changes a message that
\* carries a reason, and the reason a message ends with is that of the first pass, in
\* the order same_user_consecutive, aba, time_proximity, whose rule matches it.
LinkedOnceByFirstMatch == [][InferredLinkFrozen]_vars /\ []ReasonIsFirstMatch

\* the run ended with a message that both the A-B-A rule and the proximity rule match,
\* and that carries the reason aba
AbaWonOverProximity ==
    /\ Returned
    /\ \E k \in DOMAIN messages :
          /\ Rule2Holds(k)
          /\ Rule3Holds(k)
          /\ messages_processed[k].inferred_reply_type = "aba"

---------------------------------------------------------------------------
(* C8 *)

\* C8: for an empty list the result holds an empty conversation_chunks and a
\* processing_stats in which all seven counters are present and zero.
EmptyInputFullStats ==
    (Returned /\ messages = <<>>) =>
        /\ Chunks = <<>>
        /\ DOMAIN Stats = AllStatKeys
        /\ \A key \in DOMAIN Stats : Stats[key] = 0

---------------------------------------------------------------------------
(* C9 *)

\* C9: every chunk's id is its own source, the group id and the root message id joined
\* by underscores, and no two chunks of a run share an id.
ChunkIdFromSource ==
    Returned =>
        /\ \A c \in DOMAIN Chunks :
              Chunks[c].id = Chunks[c].source \o "_" \o ToString(Chunks[c].group_id)
                                 \o "_" \o ToString(Chunks[c].root_message_id)
        /\ \A c, d \in DOMAIN Chunks : c # d => Chunks[c].id # Chunks[d].id

\* C9 as amended: every chunk's id is the fixed prefix "tg", the group id and the root
\* message id joined by underscores, the source field being "telegram"; no two chunks of
\* a run share an id.
ChunkIdTgPrefix ==
    Returned =>
        /\ \A c \in DOMAIN Chunks :
              /\ Chunks[c].id = "tg_" \o ToString(Chunks[c].group_id)
                                    \o "_" \o ToString(Chunks[c].root_message_id)
              /\ Chunks[c].source = "telegram"
              /\ Chunks[c].group_id = group_info.group_id
        /\ \A c, d \in DOMAIN Chunks : c # d => Chunks[c].id # Chunks[d].id

\* a run returned two chunks or more
SeveralChunks == Returned /\ messages # <<>> /\ Len(Chunks) >= 2

---------------------------------------------------------------------------
(* C10 *)

\* two messages of different senders, no explicit link, parsable dates, further apart
\* than both thresholds
IsFarPair ==
    /\ Len(messages) = 2
    /\ messages[1].sender_id # messages[2].sender_id
    /\ messages[1].original_reply_to = None /\ messages[2].original_reply_to = None
    /\ messages[1].date # BadDate /\ messages[2].date # BadDate
    /\ messages[2].id - messages[1].id > id_threshold
    /\ messages[2].date - messages[1].date > time_threshold

TwoIsolatedRoots ==
    /\ \A k \in 1..2 : /\ messages_processed[k].reply_to_msg_id = None
                       /\ messages_processed[k].inferred_reply_type = NoType
    /\ root_message_ids = <<messages[1].id, messages[2].id>>
    /\ threads = << <<messages[1].id>>, <<messages[2].id>> >>
    /\ Stats.total_raw_threads_built = 2
    /\ Stats.same_user_chained_count + Stats.aba_inferred_count
          + Stats.proximity_inferred_count = 0
    /\ min_participants = DEFAULT_MIN_PARTICIPANTS => Chunks = <<>>

\* C10: such a pair gets no inferred link, each message is the root of its own
\* one-message thread, and with min_participants = 2 no chunk comes out, for any
\* thresholds.
FarPairIsolated == (Returned /\ IsFarPair) => TwoIsolatedRoots

\* C10 as amended: the same, when the two messages are also more than 30 seconds apart
\* (which the default time_threshold of 5 minutes implies).
FarPairIsolatedBeyondGap ==
    (Returned /\ IsFarPair
        /\ messages[2].date - messages[1].date > INTERJECTION_GAP) => TwoIsolatedRoots

\* the run of a far pair returned under a time_threshold below 30 seconds
FarPairShortThreshold ==
    /\ Returned
    /\ IsFarPair
    /\ time_threshold < INTERJECTION_GAP
    /\ messages[2].date - messages[1].date > INTERJECTION_GAP

---------------------------------------------------------------------------
(* C11 *)

\* the date of some message of the batch does not parse
HasUnparsableDate == \E k \in DOMAIN messages : messages[k].date = BadDate

\* one of two dates does not parse
EitherUnparsable(a, b) == a = BadDate \/ b = BadDate

\* pass 3 leaves a pair with an unparsable date unlinked
UnparsablePairNotLinked ==
    pc \notin {"start", "aba", "proximity"} =>
        \A k \in 2..Len(messages_processed) :
            EitherUnparsable(messages[k - 1].date, messages[k].date)
                => messages_processed[k].inferred_reply_type # "time_proximity"

\* root detection keeps a candidate whose time test cannot be computed
UnparsableRootKept ==
    pc \notin {"start", "aba", "proximity", "roots"} =>
        \A k \in 1..(Len(messages_processed) - 1) :
            (/\ HasNoTargetInBatch(messages_processed[k], AvailableIds(messages_processed))
             /\ EitherUnparsable(messages_processed[k].date, messages_processed[k + 1].date))
                => messages_processed[k].id \in Range(root_message_ids)

\* the traversal admits a dequeued node whose time test cannot be computed, unless it
\* was visited or a cap is reached
UnparsableNodeAdmitted ==
    (/\ pc = "bfs"
     /\ queue # <<>>
     /\ current_thread_ids # <<>>
     /\ Head(queue) \notin visited_in_this_thread
     /\ EitherUnparsable(MessageById(messages_processed,
                               current_thread_ids[Len(current_thread_ids)]).date,
                   MessageById(messages_processed, Head(queue)).date)
     /\ ~CapReached(current_thread_ids,
                    participants \cup {MessageById(messages_processed,
                                                   Head(queue)).sender_id}))
        => current_thread_ids' = Append(current_thread_ids, Head(queue))

\* the run goes on until it returns, and what it returns is the full result record
UnparsableRunCompletes ==
    (HasUnparsableDate /\ Returned) =>
              /\ DOMAIN result.value = {"group_info", "processing_parameters",
                                        "processing_stats", "conversation_chunks"}
              /\ DOMAIN Stats = AllStatKeys
              /\ Stats.total_messages_fetched = Len(messages)

\* C11: a date that does not parse never stops the run: pass 3 gives the pair it belongs
\* to no link, root detection and the per-node interjection check take their time test
\* as not satisfied (the root is kept, the node is admitted), and the run returns the
\* full result record.
UnparsableDateTolerated ==
    /\ []UnparsablePairNotLinked
    /\ []UnparsableRootKept
    /\ [][UnparsableNodeAdmitted]_vars
    /\ []UnparsableRunCompletes

\* the run returned a thread holding a message with an unparsable date that replies to
\* the root and was dequeued after a message of another sender
UnparsableNodeInThread ==
    /\ Returned
    /\ Len(messages) = 3
    /\ messages[3].date = BadDate
    /\ messages[3].original_reply_to = messages[1].id
    /\ messages[3].sender_id # messages[2].sender_id
    /\ messages[2].original_reply_to = messages[1].id
    /\ threads = << <<messages[1].id, messages[2].id, messages[3].id>> >>

---------------------------------------------------------------------------
(* C12 *)

\* some explicit reply of the batch points to its own message or to a later one (two
\* messages replying to each other are a cycle)
HasNonBackwardReply ==
    \E k \in DOMAIN messages :
        /\ messages[k].original_reply_to \in AvailableIds(messages)
        /\ messages[k].original_reply_to >= messages[k].id

\* the steps one root can still take: every admission uses up one unvisited message,
\* every other dequeue shortens the queue
TraversalLeft ==
    LET n == Len(messages)
    IN IF pc = "bfs"
       THEN (n - Cardinality(visited_in_this_thread)) * (n + 1) + Len(queue) + 1
       ELSE IF pc = "thread_end" THEN 1 ELSE 0

\* more than the steps of any one root
PerRoot == Len(messages) * (Len(messages) + 1) + Len(messages) + 3

\* a natural number that bounds the steps the run can still take
StepsLeft ==
    LET passes == CASE pc = "start" -> 4
                    [] pc = "aba" -> 3
                    [] pc = "proximity" -> 2
                    [] pc = "roots" -> 1
                    [] OTHER -> 0
        roots == Len(root_message_ids) - root_idx + 1
        pending == IF pc \in {"bfs", "thread_end"} THEN roots - 1 ELSE roots
        unprocessed == Len(threads) - thread_idx + 1
    IN IF Returned THEN 0
       ELSE passes * (2 * Len(messages) * PerRoot + Len(messages) + 3)
            + 2 * (pending * PerRoot + TraversalLeft)
            + unprocessed + 1

\* no message is twice in the thread under construction or in a built thread, no id
\* waits in the queue while it is in the thread, and the bound is a natural number
AdmittedOnce ==
    /\ Cardinality(Range(current_thread_ids)) = Len(current_thread_ids)
    /\ Range(current_thread_ids) = visited_in_this_thread
    /\ \A t \in DOMAIN threads : Cardinality(Range(threads[t])) = Len(threads[t])
    /\ pc = "bfs" => Range(queue) \cap visited_in_this_thread = {}
    /\ StepsLeft >= 0
    /\ TraversalLeft < PerRoot

\* C12: the run terminates for every batch, explicit replies that point forward, to
\* their own message or in a cycle included: every step lowers a natural-number bound on
\* the steps left, which is zero exactly when the run has returned, so each traversal
\* empties its queue or stops at a cap after finitely many dequeues; and no message is
\* admitted twice to one thread.
RunTerminates ==
    /\ [][StepsLeft' < StepsLeft]_vars
    /\ [](StepsLeft = 0 <=> Returned)
    /\ []AdmittedOnce

\* the run returned a thread that holds a message reached along an explicit reply
\* pointing forward
ForwardReplyTraversed ==
    /\ Returned
    /\ \E t \in DOMAIN threads : \E k \in DOMAIN messages :
          /\ messages[k].id \in Range(threads[t])
          /\ messages[k].original_reply_to \in Range(threads[t])
          /\ messages[k].original_reply_to > messages[k].id

---------------------------------------------------------------------------
(* C13 *)

\* no step changes the caller's list or the other arguments
ArgumentsKept ==
    /\ Len(messages') = Len(messages)
    /\ \A k \in DOMAIN messages :
          /\ messages'[k].reply_to_msg_id = messages[k].reply_to_msg_id
          /\ messages'[k].original_reply_to = messages[k].original_reply_to
          /\ messages'[k].inferred_reply_type = messages[k].inferred_reply_type
          /\ messages'[k] = messages[k]
    /\ UNCHANGED parameters

\* the three passes run on the caller's list as it is after the call
SecondInference ==
    LET avail == AvailableIds(messages)
        p1 == SameUserPass([msgs |-> messages, count |-> 0], 1, avail)
        p2 == AbaPass([msgs |-> p1.msgs, count |-> 0], 1, avail)
        p3 == ProximityPass([msgs |-> p2.msgs, count |-> 0], 1, avail, time_threshold,
                            id_threshold)
    IN [msgs |-> p3.msgs, counts |-> <<p1.count, p2.count, p3.count>>]

\* processing the list again infers the same links, counted the same way
SecondCallInfersTheSame ==
    (Returned /\ messages # <<>>) =>
        /\ SecondInference.msgs = messages_processed
        /\ SecondInference.counts = <<same_user_chained_count, aba_inferred_count,
                                      proximity_inferred_count>>

---------------------------------------------------------------------------
(* C14 *)

\* the thread a chunk was made from: the one that starts at the chunk's root message
ThreadOfChunk(c) == CHOOSE t \in DOMAIN threads : threads[t][1] = Chunks[c].root_message_id

\* the number of maximal runs of one sender in the thread at position t, in id order
SenderRuns(t) ==
    Cardinality({k \in DOMAIN threads[t] :
                    k = 1 \/ MessageById(messages_processed, threads[t][k]).sender_id
                             # MessageById(messages_processed, threads[t][k - 1]).sender_id})

\* C14: for every chunk, message_count_original is the number of messages of its thread,
\* turn_count_condensed is the number of maximal same-sender runs of the thread in id
\* order, and participant_count <= turn_count_condensed <= message_count_original.
ChunkCountsOrdered ==
    (Returned /\ messages # <<>>) =>
        \A c \in DOMAIN Chunks :
            /\ \E t \in DOMAIN threads : threads[t][1] = Chunks[c].root_message_id
            /\ Chunks[c].message_count_original = Len(threads[ThreadOfChunk(c)])
            /\ Chunks[c].turn_count_condensed = SenderRuns(ThreadOfChunk(c))
            /\ Chunks[c].participant_count = Cardinality(ThreadSenders(ThreadOfChunk(c)))
            /\ Chunks[c].participant_count <= Chunks[c].turn_count_condensed
            /\ Chunks[c].turn_count_condensed <= Chunks[c].message_count_original

\* a run returned a chunk with fewer turns than messages and a chunk with fewer
\* participants than turns
CountsStrictlyOrdered ==
    /\ Returned
    /\ messages # <<>>
    /\ \E c \in DOMAIN Chunks :
          Chunks[c].turn_count_condensed < Chunks[c].message_count_original
    /\ \E c \in DOMAIN Chunks :
          Chunks[c].participant_count < Chunks[c].turn_count_condensed

---------------------------------------------------------------------------
(* C15 *)

\* all dates parse and every explicit reply present in the batch points backwards
IsWellFormed ==
    /\ \A k \in DOMAIN messages : messages[k].date # BadDate
    /\ \A k \in DOMAIN messages :
          messages[k].original_reply_to \in AvailableIds(messages)
              => messages[k].original_reply_to < messages[k].id

\* a message replies explicitly to a message of another sender sent more than 30
\* seconds before it
HasReplyExchange ==
    \E a, b \in DOMAIN messages :
        /\ messages[b].original_reply_to = messages[a].id
        /\ messages[a].sender_id # messages[b].sender_id
        /\ messages[b].date - messages[a].date > INTERJECTION_GAP

\* C15: for a non-empty batch total_messages_fetched is the number of input messages and
\* every chunk has source "telegram" and the group_id and group_name of group_info; a
\* batch holding a reply exchange between two senders more than 30 seconds apart gives
\* at least one chunk (min_participants = 2, default thresholds, as in the test).
ReplyExchangeGivesChunk ==
    (Returned /\ messages # <<>>) =>
        /\ Stats.total_messages_fetched = Len(messages)
        /\ \A c \in DOMAIN Chunks :
              /\ Chunks[c].source = "telegram"
              /\ Chunks[c].group_id = group_info.group_id
              /\ Chunks[c].group_name = group_info.group_name
        /\ (/\ IsWellFormed
            /\ HasReplyExchange
            /\ DefaultThresholds
            /\ min_participants = DEFAULT_MIN_PARTICIPANTS) => Len(Chunks) >= 1

---------------------------------------------------------------------------
(* C16 *)

\* message k as pass p leaves it: linked to its predecessor, or as it was
LinkedToPredecessor(before, k, reason) ==
    [before[k] EXCEPT !.reply_to_msg_id = before[k - 1].id, !.inferred_reply_type = reason]

\* C16: in the state pass 1 leaves, the first message is as it arrived, and every later
\* message is linked to its predecessor with reason same_user_consecutive when the two
\* have the same sender and it has no explicit reply target, and is as it arrived
\* otherwise; the counter is the number of messages linked.
SameUserPassExact ==
    pc = "aba" =>
        /\ Len(messages_processed) = Len(messages)
        /\ messages_processed[1] = messages[1]
        /\ \A k \in 2..Len(messages) :
              messages_processed[k] =
                  IF /\ messages[k - 1].sender_id = messages[k].sender_id
                     /\ messages[k].original_reply_to = None
                  THEN LinkedToPredecessor(messages, k, "same_user_consecutive")
                  ELSE messages[k]
        /\ same_user_chained_count =
              Cardinality({k \in DOMAIN messages_processed :
                  messages_processed[k].inferred_reply_type = "same_user_consecutive"})

\* pass 1 has just linked one message and left alone a message of the same sender as its
\* predecessor that has an explicit reply target
SameUserLinkedAndSkipped ==
    /\ pc = "aba"
    /\ same_user_chained_count >= 1
    /\ \E k \in 2..Len(messages) :
          /\ messages[k - 1].sender_id = messages[k].sender_id
          /\ messages[k].original_reply_to # None

---------------------------------------------------------------------------
(* C17 *)

\* the A-B-A rule for the triple ending at k, read in the state pass 2 starts from
AbaRule(k) ==
    /\ messages_processed[k - 2].sender_id = messages_processed[k].sender_id
    /\ messages_processed[k - 1].sender_id # messages_processed[k - 2].sender_id
    /\ messages_processed[k - 1].original_reply_to = messages_processed[k - 2].id
    /\ messages_processed[k].reply_to_msg_id = None

\* what the step of pass 2 does to each message
AbaStepExact ==
    (pc = "aba" /\ pc' = "proximity") =>
        /\ Len(messages_processed') = Len(messages_processed)
        /\ \A k \in DOMAIN messages_processed :
              messages_processed'[k] =
                  IF k >= 3 /\ AbaRule(k)
                  THEN LinkedToPredecessor(messages_processed, k, "aba")
                  ELSE messages_processed[k]
        /\ \A k \in 3..Len(messages_processed) :
              messages_processed[k - 1].inferred_reply_type = "same_user_consecutive"
                  => messages_processed'[k].inferred_reply_type # "aba"
        /\ aba_inferred_count' =
              Cardinality({k \in DOMAIN messages_processed :
                  messages_processed'[k].inferred_reply_type = "aba"})

\* C17: pass 2 links m3 to m2 with reason aba exactly for the consecutive triples in
\* which m1 and m3 have one sender, m2 another, m2's original explicit reply id is m1's
\* id, and m3 has no reply link when the pass starts; every other message is left as
\* it was, and a link pass 1 inferred onto m2 never counts as m2 replying to m1.
AbaPassExact == [][AbaStepExact]_vars

\* pass 2 has linked the third message of a triple to the second
AbaLinked ==
    /\ pc = "proximity"
    /\ aba_inferred_count >= 1
    /\ \E k \in 3..Len(messages_processed) :
          /\ messages_processed[k].inferred_reply_type = "aba"
          /\ messages_processed[k].reply_to_msg_id = messages[k - 1].id

---------------------------------------------------------------------------
(* C18 *)

\* the proximity rule for the pair ending at k, read in the state pass 3 starts from
ProximityRule(k) ==
    /\ messages_processed[k - 1].sender_id # messages_processed[k].sender_id
    /\ messages_processed[k].reply_to_msg_id = None
    /\ messages_processed[k - 1].date # BadDate
    /\ messages_processed[k].date # BadDate
    /\ 0 < messages_processed[k].date - messages_processed[k - 1].date
    /\ messages_processed[k].date - messages_processed[k - 1].date <= time_threshold
    /\ 0 < messages_processed[k].id - messages_processed[k - 1].id
    /\ messages_processed[k].id - messages_processed[k - 1].id <= id_threshold

\* what the step of pass 3 does to each message
ProximityStepExact ==
    (pc = "proximity" /\ pc' = "roots") =>
        /\ Len(messages_processed') = Len(messages_processed)
        /\ \A k \in DOMAIN messages_processed :
              messages_processed'[k] =
                  IF k >= 2 /\ ProximityRule(k)
                  THEN LinkedToPredecessor(messages_processed, k, "time_proximity")
                  ELSE messages_processed[k]
        /\ \A k \in 2..Len(messages_processed) :
              (\/ messages_processed[k].date = messages_processed[k - 1].date
               \/ messages_processed[k].id - messages_processed[k - 1].id > id_threshold)
                  => messages_processed'[k].inferred_reply_type # "time_proximity"
        /\ proximity_inferred_count' =
              Cardinality({k \in DOMAIN messages_processed :
                  messages_processed'[k].inferred_reply_type = "time_proximity"})

\* C18: pass 3 links curr to prev with reason time_proximity exactly for the adjacent
\* pairs of different senders in which curr is unlinked when the pass starts,
\* 0 < time(curr) - time(prev) <= time_threshold and 0 < id(curr) - id(prev) <=
\* id_threshold; a pair with equal timestamps or an id gap above id_threshold is never
\* linked; every other message is left as it was.
ProximityPassExact == [][ProximityStepExact]_vars

\* pass 3 has linked a pair exactly time_threshold apart, the ids id_threshold apart
ProximityLinkedAtThreshold ==
    /\ pc = "roots"
    /\ \E k \in 2..Len(messages_processed) :
          /\ messages_processed[k].inferred_reply_type = "time_proximity"
          /\ messages[k].date - messages[k - 1].date = time_threshold
          /\ messages[k].id - messages[k - 1].id = id_threshold

---------------------------------------------------------------------------
(* C19 *)

\* the message at position k has no reply target present in the batch
IsRootCandidate(k) ==
    messages_processed[k].reply_to_msg_id \notin AvailableIds(messages_processed)

\* the interjection filter drops the candidate at position k
DroppedByRootFilter(k) ==
    /\ k < Len(messages_processed)
    /\ messages_processed[k + 1].sender_id # messages_processed[k].sender_id
    /\ messages_processed[k + 1].reply_to_msg_id = None
    /\ messages_processed[k + 1].inferred_reply_type # "time_proximity"
    /\ \A j \in DOMAIN messages_processed :
          messages_processed[j].reply_to_msg_id # messages_processed[k].id
    /\ messages_processed[k].date # BadDate
    /\ messages_processed[k + 1].date # BadDate
    /\ messages_processed[k + 1].date - messages_processed[k].date <= INTERJECTION_GAP

\* C19: the roots are exactly the messages that have no reply target present in the
\* batch and are not dropped by the interjection filter (a next message exists, has
\* another sender, no reply link and a reason other than time_proximity, the message is
\* no message's reply target, and the next message is at most 30 seconds later); they
\* are listed by ascending id.
RootsExact ==
    pc \in {"threads", "bfs", "thread_end", "done"} /\ messages # <<>> =>
        /\ Range(root_message_ids) =
              {messages_processed[k].id : k \in {j \in DOMAIN messages_processed :
                                                   IsRootCandidate(j) /\ ~DroppedByRootFilter(j)}}
        /\ \A i, j \in DOMAIN root_message_ids :
              i < j => root_message_ids[i] < root_message_ids[j]

\* roots were identified in a batch where the filter dropped a candidate and a message
\* replying to an id outside the batch became a root
RootDroppedAndAbsentTargetKept ==
    /\ pc = "threads"
    /\ \E k \in DOMAIN messages_processed : IsRootCandidate(k) /\ DroppedByRootFilter(k)
    /\ \E k \in DOMAIN messages_processed :
          /\ messages_processed[k].reply_to_msg_id = AbsentId
          /\ messages_processed[k].id \in Range(root_message_ids)

---------------------------------------------------------------------------
(* C20 *)

\* the node at the head of the queue and the node admitted last
Dequeued == MessageById(messages_processed, Head(queue))
LastAdmitted == MessageById(messages_processed, current_thread_ids[Len(current_thread_ids)])

\* the dequeued node is up for the interjection check: it is not the root, was not
\* visited, and no cap stops the traversal
UpForNodeCheck ==
    /\ pc = "bfs"
    /\ queue # <<>>
    /\ current_thread_ids # <<>>
    /\ Head(queue) # root_message_ids[root_idx]
    /\ Head(queue) \notin visited_in_this_thread
    /\ Len(current_thread_ids) < MAX_THREAD_MESSAGES
    /\ Cardinality(participants \cup {Dequeued.sender_id}) <= MAX_PARTICIPANTS

\* the four conditions of the check
SkipConditions ==
    /\ Dequeued.reply_to_msg_id # LastAdmitted.id
    /\ Dequeued.sender_id # LastAdmitted.sender_id
    /\ Dequeued.inferred_reply_type # "time_proximity"
    /\ Dequeued.date # BadDate
    /\ LastAdmitted.date # BadDate
    /\ Dequeued.date - LastAdmitted.date <= INTERJECTION_GAP

\* the ids replying to the dequeued node, ascending
ChildrenOfDequeued ==
    SortedSeq({messages_processed[k].id : k \in {j \in DOMAIN messages_processed :
                  messages_processed[j].reply_to_msg_id = Head(queue)}})

NodeCheckStep ==
    UpForNodeCheck =>
        IF SkipConditions
        THEN /\ current_thread_ids' = current_thread_ids
             /\ queue' = Tail(queue)
             /\ processed_in_threads' = processed_in_threads
        ELSE /\ current_thread_ids' = Append(current_thread_ids, Head(queue))
             /\ queue' = Tail(queue) \o ChildrenOfDequeued
             /\ processed_in_threads' = processed_in_threads \cup {Head(queue)}

\* C20: a dequeued non-root node is skipped, its children not enqueued, exactly when its
\* reply target is not the node admitted last, its sender differs from that node's, its
\* reason is not time_proximity and it is at most 30 seconds later than that node; in
\* every other case, caps permitting, it is admitted and its children are enqueued.
NodeCheckExact == [][NodeCheckStep]_vars

\* the traversal goes on after it skipped a node that replies to an admitted one
NodeSkippedInTraversal ==
    /\ pc = "bfs"
    /\ Len(current_thread_ids) >= 2
    /\ \E k \in DOMAIN messages_processed :
          /\ messages_processed[k].reply_to_msg_id \in Range(current_thread_ids)
          /\ messages_processed[k].id \notin Range(current_thread_ids) \cup Range(queue)

---------------------------------------------------------------------------
(* C21 *)

\* the distinct senders of the messages admitted to the thread under construction
AdmittedSenders ==
    {MessageById(messages_processed, id).sender_id : id \in Range(current_thread_ids)}

\* the traversal stops at the dequeued node while the thread is below the size cap
StoppedByParticipantCap ==
    /\ pc = "bfs"
    /\ pc' = "thread_end"
    /\ Len(current_thread_ids) < MAX_THREAD_MESSAGES

\* a stop for the participant cap happens only at a node that would bring the senders
\* of the thread above MAX_PARTICIPANTS
ParticipantCapStep ==
    StoppedByParticipantCap =>
        Cardinality(AdmittedSenders
                    \cup {MessageById(messages_processed, Head(queue)).sender_id})
            > MAX_PARTICIPANTS

\* the participant set of the traversal holds the senders of the admitted messages only
ParticipantsAreAdmitted == pc = "bfs" => participants \subseteq AdmittedSenders

\* C21: the participant cap stops a traversal only at a node whose sender, together with
\* the senders of the messages already admitted, makes more than 5 distinct senders; the
\* senders of nodes skipped as interjections are not in the participant set.
ParticipantCapCountsAdmitted ==
    [][ParticipantCapStep]_vars /\ []ParticipantsAreAdmitted

---------------------------------------------------------------------------
(* C22 *)

\* the reply target of the message with this id, after inference
TargetOf(id) == MessageById(messages_processed, id).reply_to_msg_id

\* the messages of a thread that have no reply target present in the batch
Untargeted(thread) ==
    {id \in Range(thread) : TargetOf(id) \notin AvailableIds(messages_processed)}

\* following reply targets from id leads to root within n steps
RECURSIVE LeadsTo(_, _, _)
LeadsTo(id, root, n) ==
    \/ id = root
    \/ /\ n > 0
       /\ TargetOf(id) \in AvailableIds(messages_processed)
       /\ LeadsTo(TargetOf(id), root, n - 1)

\* the thread is a tree of reply edges under one root
IsReplyTree(thread) ==
    /\ Cardinality(Untargeted(thread)) = 1
    /\ Untargeted(thread) \subseteq Range(root_message_ids)
    /\ \A id \in Range(thread) \ Untargeted(thread) : TargetOf(id) \in Range(thread)
    /\ \A id \in Range(thread) :
          LeadsTo(id, CHOOSE r \in Untargeted(thread) : TRUE, Len(thread))

\* C22: every thread, built or under construction, holds exactly one message without a
\* reply target in the batch, the root its traversal started from; the reply target of
\* every other message of the thread is a message of the thread, and following reply
\* targets from any of them ends at the root.
ThreadsAreReplyTrees ==
    /\ \A t \in DOMAIN threads : IsReplyTree(threads[t])
    /\ (pc = "bfs" /\ current_thread_ids # <<>>) =>
          /\ IsReplyTree(current_thread_ids)
          /\ Untargeted(current_thread_ids) = {root_message_ids[root_idx]}

\* the run returned a thread with a message two reply edges away from the root and a
\* message replying to the root
DeepThreadBuilt ==
    /\ Returned
    /\ \E t \in DOMAIN threads : \E a, b \in Range(threads[t]) :
          /\ a # b
          /\ TargetOf(a) \in Untargeted(threads[t])
          /\ TargetOf(b) \in Range(threads[t]) \ Untargeted(threads[t])

---------------------------------------------------------------------------
(* C23 *)

\* C23: no message is in two threads, built or under construction, hence no two chunks
\* come from one message; processed_in_threads is the set of messages in threads; and
\* the root the loop turns to is never a member of a thread built before.
ThreadsDisjoint ==
    /\ \A t, u \in DOMAIN threads : t # u => Range(threads[t]) \cap Range(threads[u]) = {}
    /\ pc = "bfs" =>
          \A t \in DOMAIN threads : Range(threads[t]) \cap Range(current_thread_ids) = {}
    /\ pc \in {"threads", "done"} =>
          processed_in_threads = UNION {Range(threads[t]) : t \in DOMAIN threads}
    /\ \A c, d \in DOMAIN conversation_chunks :
          c # d => conversation_chunks[c].root_message_id
                      # conversation_chunks[d].root_message_id
    /\ (pc = "threads" /\ root_idx <= Len(root_message_ids)) =>
          root_message_ids[root_idx] \notin processed_in_threads

\* the run returned two threads or more, one of them with several messages
SeveralThreadsBuilt ==
    /\ Returned
    /\ Len(threads) >= 2
    /\ \E t \in DOMAIN threads : Len(threads[t]) >= 2

---------------------------------------------------------------------------
(* C24 *)

RootsKnown == pc \in {"threads", "bfs", "thread_end", "done"}

\* a root candidate the interjection filter removed
FilteredCandidate(k) == IsRootCandidate(k) /\ DroppedByRootFilter(k)

\* the message's reply target was admitted to a thread, and the message itself was not
\* and is not waiting in the queue of the running traversal: it was skipped, refused by
\* a cap, or left in the queue when a cap stopped the thread
PassedOver(k) ==
    /\ messages_processed[k].id \notin processed_in_threads
    /\ messages_processed[k].reply_to_msg_id \in processed_in_threads
    /\ pc = "bfs" => messages_processed[k].id \notin Range(queue)

NotAdmitted(k) == FilteredCandidate(k) \/ PassedOver(k)

\* a message passed over or filtered stays so at the next step
DroppedStaysDropped ==
    RootsKnown =>
        \A k \in DOMAIN messages_processed :
            NotAdmitted(k) =>
                /\ NotAdmitted(k)'
                /\ messages_processed[k].id \notin processed_in_threads'
                /\ messages_processed[k].id \notin Range(current_thread_ids')
                /\ \A t \in DOMAIN threads' : messages_processed[k].id \notin Range(threads'[t])

\* no message that replies, directly or through other messages, to a message not
\* admitted is in a thread or at the root of a chunk
RepliesToDroppedOutside ==
    RootsKnown =>
        \A k, j \in DOMAIN messages_processed :
            (/\ NotAdmitted(k)
             /\ j # k
             /\ LeadsTo(messages_processed[j].id, messages_processed[k].id,
                        Len(messages_processed)))
                => /\ messages_processed[j].id \notin processed_in_threads
                   /\ \A t \in DOMAIN threads : messages_processed[j].id \notin Range(threads[t])
                   /\ \A c \in DOMAIN conversation_chunks :
                         conversation_chunks[c].root_message_id # messages_processed[j].id

\* C24: a message that was not admitted when its turn came (a root candidate the filter
\* removed, a node skipped by the interjection check, a node refused or left waiting when
\* a cap stopped its thread) is in no thread and no chunk at any later step, and neither
\* is a message replying to it directly or transitively.
DroppedNeverReattached == [][DroppedStaysDropped]_vars /\ []RepliesToDroppedOutside

\* the run returned with a message that was passed over and has a reply of its own
DroppedWithReplies ==
    /\ Returned
    /\ \E k, j \in DOMAIN messages_processed :
          /\ PassedOver(k)
          /\ messages_processed[j].reply_to_msg_id = messages_processed[k].id

---------------------------------------------------------------------------
(* C25 *)

\* the senders and the texts of the thread at position t, in id order
SendersOf(t) == [k \in DOMAIN threads[t] |-> MessageById(messages_processed, threads[t][k]).sender_id]
TextsOf(t) == [k \in DOMAIN threads[t] |-> MessageById(messages_processed, threads[t][k]).text]

\* the positions at which a maximal run of one sender starts, ascending
RunStarts(snd) == SortedSeq({k \in DOMAIN snd : k = 1 \/ snd[k] # snd[k - 1]})

\* the number of senders that appear before the sender s first does
SendersBefore(snd, s) ==
    LET first == CHOOSE k \in DOMAIN snd : snd[k] = s /\ \A j \in 1..(k - 1) : snd[j] # s
    IN Cardinality({snd[j] : j \in 1..(first - 1)})

\* the labels of the turns: the run starting at rs[i] gets the number of its sender
TurnLabels(snd, rs) == [i \in DOMAIN rs |-> "user" \o ToString(SendersBefore(snd, snd[rs[i]]))]

\* the texts of the i-th run, joined by newlines
TurnText(txt, rs, i) ==
    LET first == rs[i]
        last == IF i < Len(rs) THEN rs[i + 1] - 1 ELSE Len(txt)
    IN Join("\n", [k \in 1..(last - first + 1) |-> txt[first + k - 1]])

\* the turns of the thread, one line each
TurnLines(txt, rs, labels) ==
    Join("\n", [i \in DOMAIN rs |-> <<labels[i], ": ">> \o TurnText(txt, rs, i)])

\* C25: the content of every chunk is one turn per maximal same-sender run of its thread
\* in id order; the label of a turn is user(k-1) for the k-th sender to appear in the
\* thread, so the first turn is user0 in every thread, a sender keeps its label, and
\* adjacent turns carry different labels.
TurnsCondensed ==
    (Returned /\ messages # <<>>) =>
        \A c \in DOMAIN Chunks :
            LET t == ThreadOfChunk(c)
                snd == SendersOf(t)
                rs == RunStarts(snd)
                labels == TurnLabels(snd, rs)
            IN /\ Chunks[c].content = TurnLines(TextsOf(t), rs, labels)
               /\ Chunks[c].turn_count_condensed = Len(rs)
               /\ labels[1] = "user0"
               /\ \A i \in 1..(Len(rs) - 1) : labels[i] # labels[i + 1]
               /\ \A i, j \in DOMAIN rs : labels[i] = labels[j] <=> snd[rs[i]] = snd[rs[j]]

\* the run returned a chunk in which a sender speaks again after another one, and a
\* second chunk
SenderSpeaksAgain ==
    /\ Returned
    /\ messages # <<>>
    /\ \E c \in DOMAIN Chunks :
          /\ Chunks[c].turn_count_condensed >= 3
          /\ Chunks[c].participant_count = 2
          /\ Chunks[c].message_count_original > Chunks[c].turn_count_condensed

---------------------------------------------------------------------------
(* C26 *)

\* the lowest and the highest id of a thread
LowestId(thread) == CHOOSE x \in Range(thread) : \A y \in Range(thread) : x <= y
HighestId(thread) == CHOOSE x \in Range(thread) : \A y \in Range(thread) : y <= x

\* C26: for every chunk, root_message_id is the id of the root its thread was traversed
\* from, which is the lowest id of the thread; start_date is the date of that message and
\* end_date the date of the thread's highest-id message; the chunks are listed by
\* ascending root_message_id.
ChunkSpansThreadFromRoot ==
    (Returned /\ messages # <<>>) =>
        /\ \A c \in DOMAIN Chunks :
              \E t \in DOMAIN threads :
                  /\ Chunks[c].root_message_id \in Range(threads[t])
                  /\ Chunks[c].root_message_id \in Range(root_message_ids)
                  /\ Chunks[c].root_message_id = LowestId(threads[t])
                  /\ Chunks[c].start_date
                        = MessageById(messages_processed, Chunks[c].root_message_id).date
                  /\ Chunks[c].end_date
                        = MessageById(messages_processed, HighestId(threads[t])).date
        /\ \A c, d \in DOMAIN Chunks :
              c < d => Chunks[c].root_message_id < Chunks[d].root_message_id

---------------------------------------------------------------------------
(* C27 *)

\* the number of messages that carry the reason tag
TaggedCount(reason) ==
    Cardinality({k \in DOMAIN messages_processed :
        messages_processed[k].inferred_reply_type = reason})

\* the positions of the root candidates the interjection filter kept
SurvivingRoots ==
    {k \in DOMAIN messages_processed : IsRootCandidate(k) /\ ~DroppedByRootFilter(k)}

\* C27: at the end of a non-empty run, total_raw_threads_built is threads_filtered_out
\* plus final_chunks_exported, final_chunks_exported is the length of conversation_chunks,
\* total_raw_threads_built is the number of roots that survived the interjection filter,
\* and each pass counter is the number of messages that carry the pass's reason tag.
StatsAgreeWithRun ==
    (Returned /\ messages # <<>>) =>
        /\ Stats.total_raw_threads_built
              = Stats.threads_filtered_out + Stats.final_chunks_exported
        /\ Stats.final_chunks_exported = Len(Chunks)
        /\ Stats.total_raw_threads_built = Cardinality(SurvivingRoots)
        /\ Stats.same_user_chained_count = TaggedCount("same_user_consecutive")
        /\ Stats.aba_inferred_count = TaggedCount("aba")
        /\ Stats.proximity_inferred_count = TaggedCount("time_proximity")

\* a run ended with a root candidate dropped by the interjection filter, a thread built
\* from a surviving root, and a link written by one of the passes
CountersMovedAndRootDropped ==
    /\ Returned
    /\ messages # <<>>
    /\ Stats.total_raw_threads_built >= 1
    /\ \E k \in DOMAIN messages_processed : IsRootCandidate(k) /\ DroppedByRootFilter(k)
    /\ \E r \in {"same_user_consecutive", "aba", "time_proximity"} : TaggedCount(r) >= 1

---------------------------------------------------------------------------
(* C28 *)

\* the message at position k carries a link written by one of the passes
HasInferredLink(k) == messages_processed[k].inferred_reply_type # NoType

\* C28: in every state of the run, a message that carries an inferred link is not the
\* first of the batch and its target is the id of the message just before it in the
\* batch, so the target is an id of the batch and is strictly smaller than the id of
\* the message.
InferredLinksTargetPredecessor ==
    \A k \in DOMAIN messages_processed :
        HasInferredLink(k) =>
            /\ k >= 2
            /\ messages_processed[k].reply_to_msg_id = messages[k - 1].id
            /\ \E j \in DOMAIN messages : messages[j].id = messages_processed[k].reply_to_msg_id
            /\ messages_processed[k].reply_to_msg_id < messages[k].id

\* the passes are over, two of them wrote links, and one link is on a message that is
\* third or later in the batch
InferredLinkBeyondSecond ==
    /\ InferenceDone
    /\ \E k \in DOMAIN messages_processed : k >= 3 /\ HasInferredLink(k)
    /\ \E j, k \in DOMAIN messages_processed :
          /\ HasInferredLink(j)
          /\ HasInferredLink(k)
          /\ messages_processed[j].inferred_reply_type
                # messages_processed[k].inferred_reply_type

---------------------------------------------------------------------------
(* C29 *)

\* one of the three passes applied to a list, with the thresholds of the run
ApplyPass(pass, msgs) ==
    IF pass = "same_user_consecutive"
    THEN SameUserPass([msgs |-> msgs, count |-> 0], 1, AvailableIds(msgs)).msgs
    ELSE IF pass = "aba"
    THEN AbaPass([msgs |-> msgs, count |-> 0], 1, AvailableIds(msgs)).msgs
    ELSE ProximityPass([msgs |-> msgs, count |-> 0], 1, AvailableIds(msgs),
                       time_threshold, id_threshold).msgs

\* the three passes applied to the batch as it arrived, in the order given
PassesInOrder(order) == ApplyPass(order[3], ApplyPass(order[2], ApplyPass(order[1], messages)))

\* the orders the three passes can be run in
PassOrders ==
    {o \in [{1, 2, 3} -> {"same_user_consecutive", "aba", "time_proximity"}] :
        \A a, b \in {1, 2, 3} : a # b => o[a] # o[b]}

\* C29: when the passes are over, every order of the three passes applied to the batch
\* gives every message the reply_to_msg_id the run gave it; the reason tag differs from
\* the run's only on a message that both the A-B-A rule and the proximity rule match,
\* where it is aba or time_proximity; and the A-B-A pass run before pass 1 gives the
\* same list as the run.
PassOrderIrrelevant ==
    pc = "roots" =>
        /\ \A o \in PassOrders :
              LET other == PassesInOrder(o)
              IN \A k \in DOMAIN messages_processed :
                    /\ other[k].reply_to_msg_id = messages_processed[k].reply_to_msg_id
                    /\ other[k].inferred_reply_type # messages_processed[k].inferred_reply_type
                          => /\ Rule2Holds(k)
                             /\ Rule3Holds(k)
                             /\ other[k].inferred_reply_type = "time_proximity"
                             /\ messages_processed[k].inferred_reply_type = "aba"
        /\ PassesInOrder(<<"aba", "same_user_consecutive", "time_proximity">>)
              = messages_processed

\* the passes are over, pass 2 wrote a link, and running pass 3 before pass 2 would
\* have changed a reason tag
OrderChangesTag ==
    /\ pc = "roots"
    /\ aba_inferred_count >= 1
    /\ \E k \in DOMAIN messages_processed :
          PassesInOrder(<<"same_user_consecutive", "time_proximity", "aba">>)[k]
              .inferred_reply_type # messages_processed[k].inferred_reply_type

---------------------------------------------------------------------------
(* C30 *)

\* the `while queue` loop run to its end from the state given
RECURSIVE Traverse(_, _, _, _)
Traverse(msgs, map, root_id, st) ==
    IF st.queue = <<>> THEN st
    ELSE LET cur_id == Head(st.queue)
             rest == Tail(st.queue)
         IN IF cur_id \notin AvailableIds(msgs) \/ cur_id \in st.visited
            THEN Traverse(msgs, map, root_id, [st EXCEPT !.queue = rest])
            ELSE LET parts == st.parts \cup {MessageById(msgs, cur_id).sender_id}
                 IN IF CapReached(st.thread, parts)
                    THEN [st EXCEPT !.queue = rest, !.parts = parts]
                    ELSE IF NodeIsInterjection(msgs, st.thread, root_id, cur_id)
                    THEN Traverse(msgs, map, root_id,
                                  [st EXCEPT !.queue = rest, !.parts = parts])
                    ELSE LET visited == st.visited \cup {cur_id}
                         IN Traverse(msgs, map, root_id,
                                [thread |-> Append(st.thread, cur_id),
                                 parts |-> parts,
                                 queue |-> rest \o RepliesToEnqueue(map, cur_id, visited),
                                 visited |-> visited,
                                 processed |-> st.processed \cup {cur_id}])

\* `for root_id in root_message_ids` run over the roots given, from position i on
RECURSIVE ThreadsFromRoots(_, _, _, _, _, _)
ThreadsFromRoots(msgs, map, roots, i, processed, built) ==
    IF i > Len(roots) THEN built
    ELSE IF roots[i] \in processed
    THEN ThreadsFromRoots(msgs, map, roots, i + 1, processed, built)
    ELSE LET st == Traverse(msgs, map, roots[i],
                            [thread |-> <<>>, parts |-> {}, queue |-> <<roots[i]>>,
                             visited |-> {}, processed |-> processed])
         IN ThreadsFromRoots(msgs, map, roots, i + 1, st.processed,
                             IF st.thread # <<>> THEN Append(built, Sorted(st.thread))
                             ELSE built)

\* `for thread in threads` run over the threads given: the chunks of the threads the
\* participant filter lets through
RECURSIVE ChunksOfThreads(_, _, _)
ChunksOfThreads(msgs, built, t) ==
    IF t > Len(built) THEN <<>>
    ELSE LET thread == [k \in DOMAIN built[t] |-> MessageById(msgs, built[t][k])]
             cond == CondenseThread(thread)
         IN IF FilteredOut(cond, min_participants)
            THEN ChunksOfThreads(msgs, built, t + 1)
            ELSE <<ChunkDict(thread, cond, group_info)>> \o ChunksOfThreads(msgs, built, t + 1)

\* the root list with every candidate kept: the ids of the messages that have no reply
\* target in the batch, sorted
AllRootCandidates(msgs) ==
    SortedSeq({id \in AvailableIds(msgs) :
                  HasNoTargetInBatch(MessageById(msgs, id), AvailableIds(msgs))})

\* the ids of the candidates the interjection filter dropped in this run
DroppedCandidates == Range(AllRootCandidates(messages_processed)) \ Range(root_message_ids)

\* C30: at the end of a non-empty run with min_participants >= 2, the threads built from
\* every root candidate give the conversation_chunks the run returned; each candidate the
\* filter dropped has no replies and forms a thread of its own with one message; and
\* the thread count and the filtered-out count of the run are those of the unfiltered
\* traversal less the number of dropped candidates.
RootFilterLeavesChunks ==
    (Returned /\ messages # <<>> /\ min_participants >= 2) =>
        LET unfiltered == ThreadsFromRoots(messages_processed, replies_to_map,
                                           AllRootCandidates(messages_processed), 1, {}, <<>>)
            chunks == ChunksOfThreads(messages_processed, unfiltered, 1)
        IN /\ chunks = Chunks
           /\ \A d \in DroppedCandidates :
                 /\ d \notin DOMAIN replies_to_map
                 /\ \E t \in DOMAIN unfiltered : unfiltered[t] = <<d>>
           /\ Stats.total_raw_threads_built
                 = Len(unfiltered) - Cardinality(DroppedCandidates)
           /\ Stats.threads_filtered_out
                 = (Len(unfiltered) - Len(chunks)) - Cardinality(DroppedCandidates)

\* a run with min_participants >= 2 ended with a chunk emitted and a root candidate
\* dropped by the interjection filter
ChunkEmittedAndCandidateDropped ==
    /\ Returned
    /\ messages # <<>>
    /\ min_participants >= 2
    /\ Chunks # <<>>
    /\ DroppedCandidates # {}

====
